---- MODULE Spec2Model ----
(***************************************************************************)
(* Human-in-the-loop bias review of sambhav605/Setu: the in-memory         *)
(* HITLSessionManager (src/utility/hitl_session_manager.py) and the        *)
(* request handlers that drive it (src/api/routes/bias_detection_hitl.py), *)
(* and the sentence segmenter PDFProcessor.split_into_sentences            *)
(* (src/utility/pdf_processor.py), which runs on its own specification.    *)
(*                                                                         *)
(* Every handler is an `async def` that never awaits between its first     *)
(* read and its last write of the session manager (the gateway and the     *)
(* renderer are called synchronously), so on the event loop a handler runs *)
(* to completion before the next one starts: one action per handler.       *)
(***************************************************************************)
EXTENDS Integers, Sequences, FiniteSets, TLC

\* ---------------------------------------------------------------- bounds
\* Sentences a document segments into, at most, in the review workflow.
MaxItems == 2
\* The same, where the suggestion texts vary (SpecTexts).
MaxTextItems == 1
\* The same, where the gateway call is visible (SpecAwait, SpecLoop).
MaxAwaitItems == 1
\* Regenerate requests inside the gateway call at the same time.
MaxInFlight == 2
\* Sentences of a document where labels, scores and thresholds vary
\* (SpecThreshold).
MaxScoredItems == 1

\* Sentences of a text handed to the segmenter.
MaxSentences == 3
\* Words and single characters of a text handed to the segmenter.
MaxTokens == 3
\* Characters of a text of whitespace and punctuation only.
MaxBlank == 4
\* Sentences of a text of danda-terminated Devanagari sentences.
MaxDense == 2
\* Spaces between a danda and the sentence that follows it.
MaxGap == 2

\* ------------------------------------------------------------- constants
\* Python's None.
None == "None"
\* Form default of confidence_threshold, in tenths (0.7).
confidence_threshold_default == 7
\* What the classifier pipeline answers for one sentence: a neutral label
\* and a bias label, both scored on the threshold.
Predictions == {[label |-> "LABEL_0", score |-> 7], [label |-> "LABEL_1", score |-> 7]}
\* Scores and thresholds around the default, in tenths.
ScoreRange == 6..8
\* The same answers with every score of the range, and a label that
\* id_to_label does not know.
ScoredPredictions ==
    {[label |-> l, score |-> c] : l \in {"LABEL_0", "LABEL_1", "LABEL_99"},
                                  c \in ScoreRange}
\* Texts the Suggestion Gateway (Mistral) may return.
Suggestions == {"s1", "s2"}
\* uuid4 strings in the order create_session draws them.
Uuid4Draws == <<"session-1", "session-2">>
\* The uuid4 strings create_session draws where one session is reviewed.
SessionUuids == {Uuid4Draws[1]}
\* approved_suggestion values of an ApprovalRequest: absent, empty, a text.
ApprovedTexts == {None, "", "t1"}
\* action values of an ApprovalRequest; "skip" stands for any other string.
Actions == {"approve", "reject", "skip"}
\* session_id values of a request; "unknown" is an id never issued.
RequestSessionIds == SessionUuids \cup {"unknown"}
\* sentence_id values of a request, for documents of at most max_items.
RequestSentenceIds(max_items) ==
    (SessionUuids \X (1..max_items)) \cup {<<"unknown", 0>>}

VARIABLES
    sessions,          \* HITLSessionManager._sessions: session_id -> BiasReviewSession
    classifier_loaded, \* bias_detection.classifier is not None (fixed at import)
    response,          \* what the last handler returned or raised
    renderer_invoked,  \* the last handler called pdf_regenerator.regenerate_pdf
    in_call,           \* regenerate requests inside generate_debiased_sentence, in arrival order
    serial_sessions,   \* the store, had the requests answered so far run one after another
    text,              \* the text handed to PDFProcessor.split_into_sentences
    cleaned_sentences, \* what split_into_sentences returned for it
    segmented          \* split_into_sentences has returned

\* What only the specifications with a visible gateway call use.
call_vars == <<in_call, serial_sessions>>

\* What only the specification of the segmenter uses.
segment_vars == <<text, cleaned_sentences, segmented>>

\* What the review workflow uses.
review_vars == <<sessions, classifier_loaded, response, renderer_invoked, in_call, serial_sessions>>

vars == <<review_vars, segment_vars>>

\* ------------------------------------------------------------ pure helpers
\* Python truthiness of an Optional[str].
Truthy(s) == s # None /\ s # ""

\* uuid4 of the i-th item built for the upload that becomes session_id:
\* unique across sessions and items.
sentence_uuid(session_id, i) == <<session_id, i>>

\* uuid4 of the next session: an id the store has never held (sessions are
\* never removed, so the store holds the draws made so far).
session_uuid(S) == Uuid4Draws[Cardinality(DOMAIN S) + 1]

\* id_to_label.get(label_id, "unknown")
id_to_label(label_id) ==
    CASE label_id = "LABEL_0" -> "neutral"
      [] label_id = "LABEL_1" -> "gender"
      [] OTHER -> "unknown"

\* Mutant: a confidence equal to the threshold does not count.
is_biased_above_only(category, confidence, confidence_threshold) ==
    category # "neutral" /\ confidence > confidence_threshold

\* is_biased of run_bias_detection
is_biased(category, confidence, confidence_threshold) ==
    category # "neutral" /\ confidence >= confidence_threshold

\* An HTTP answer: status code, detail or message, and the values its body
\* carries (counts, or the sentence_id a response model echoes).
Respond(status_code, detail, body) ==
    [status_code |-> status_code, detail |-> detail, body |-> body]

\* ----------------------------------------------------- HITLSessionManager
\* Optional[BiasReviewSession] as a sequence of length 0 or 1.
get_session(S, session_id) ==
    IF session_id \in DOMAIN S THEN <<S[session_id]>> ELSE <<>>

\* Index of the first sentence with this id, 0 when the loop finds none.
find_sentence(sentences, sentence_id) ==
    LET hits == {i \in 1..Len(sentences) : sentences[i].sentence_id = sentence_id}
    IN  IF hits = {} THEN 0 ELSE CHOOSE i \in hits : \A j \in hits : i <= j

\* `if approved_suggestion: sentence.approved_suggestion = approved_suggestion`
store_approved_suggestion(sentence, approved_suggestion) ==
    IF Truthy(approved_suggestion)
    THEN [sentence EXCEPT !.approved_suggestion = approved_suggestion]
    ELSE sentence

\* Mutant: the promotion is not applied by the time the call returns.
promote_deferred(status) == status

\* Mutant: any status but in_progress is promoted.
promote_unless_in_progress(status) ==
    IF status # "in_progress" THEN "in_progress" ELSE status

\* `if session.status == "pending_review": session.status = "in_progress"`
promote_session_status(status) ==
    IF status = "pending_review" THEN "in_progress" ELSE status

\* Mutant: the session is promoted before the sentence is looked up.
update_sentence_status_promotes_first(S, session_id, sentence_id, status, approved_suggestion) ==
    LET found == get_session(S, session_id) IN
    IF found = <<>> THEN [ok |-> FALSE, sessions |-> S]
    ELSE
      LET session == [found[1] EXCEPT !.status = promote_session_status(@)]
          i == find_sentence(session.sentences, sentence_id)
      IN  IF i = 0
          THEN [ok |-> FALSE, sessions |-> [S EXCEPT ![session_id] = session]]
          ELSE [ok |-> TRUE,
                sessions |-> [S EXCEPT ![session_id] =
                    [session EXCEPT !.sentences[i] = store_approved_suggestion(
                        [session.sentences[i] EXCEPT !.status = status],
                        approved_suggestion)]]]

\* Result of a manager call: its boolean and the store it leaves.
update_sentence_status(S, session_id, sentence_id, status, approved_suggestion) ==
    LET found == get_session(S, session_id) IN
    IF found = <<>> THEN [ok |-> FALSE, sessions |-> S]
    ELSE
      LET session == found[1]
          i == find_sentence(session.sentences, sentence_id)
      IN  IF i = 0 THEN [ok |-> FALSE, sessions |-> S]
          ELSE
            LET sentence == store_approved_suggestion(
                    [session.sentences[i] EXCEPT !.status = status],
                    approved_suggestion)
            IN  [ok |-> TRUE,
                 sessions |-> [S EXCEPT ![session_id] =
                    [session EXCEPT !.sentences[i] = sentence,
                                    !.status = promote_session_status(session.status)]]]

\* Mutant: a sentence with a new suggestion is relabelled neutral.
store_suggestion_relabels(sentence, new_suggestion) ==
    [sentence EXCEPT !.category = "neutral",
                     !.suggestion = new_suggestion, !.status = "pending"]

\* Mutant: the status is not reset.
store_suggestion_keeps_status(sentence, new_suggestion) ==
    [sentence EXCEPT !.suggestion = new_suggestion]

\* `sentence.suggestion = new_suggestion; sentence.status = "pending"`
store_suggestion(sentence, new_suggestion) ==
    [sentence EXCEPT !.suggestion = new_suggestion, !.status = "pending"]

\* Mutant: the id comparison is lost, every sentence of the session is reset.
update_sentence_suggestion_every_sentence(S, session_id, sentence_id, new_suggestion) ==
    LET found == get_session(S, session_id) IN
    IF found = <<>> THEN [ok |-> FALSE, sessions |-> S]
    ELSE
      LET session == found[1] IN
      IF find_sentence(session.sentences, sentence_id) = 0
      THEN [ok |-> FALSE, sessions |-> S]
      ELSE [ok |-> TRUE,
            sessions |-> [S EXCEPT ![session_id].sentences =
                [i \in 1..Len(session.sentences) |->
                    store_suggestion(session.sentences[i], new_suggestion)]]]

update_sentence_suggestion(S, session_id, sentence_id, new_suggestion) ==
    LET found == get_session(S, session_id) IN
    IF found = <<>> THEN [ok |-> FALSE, sessions |-> S]
    ELSE
      LET session == found[1]
          i == find_sentence(session.sentences, sentence_id)
      IN  IF i = 0 THEN [ok |-> FALSE, sessions |-> S]
          ELSE [ok |-> TRUE,
                sessions |-> [S EXCEPT ![session_id].sentences[i] =
                    store_suggestion(session.sentences[i], new_suggestion)]]

\* sum(1 for s in session.sentences if s.status == status)
count_status(sentences, status) ==
    Cardinality({i \in 1..Len(sentences) : sentences[i].status = status})

\* The dictionary of get_session_stats, for a session the store holds.
get_session_stats(S, session_id) ==
    LET sentences == S[session_id].sentences IN
    [total_sentences |-> Len(sentences),
     pending_count |-> count_status(sentences, "pending"),
     approved_count |-> count_status(sentences, "approved"),
     needs_regeneration_count |-> count_status(sentences, "needs_regeneration")]

\* Mutant: the neutral exemption is dropped.
blocks_pdf_any_unapproved(sentence) == sentence.status # "approved"

\* Mutant: only pending sentences block, rejected ones do not.
blocks_pdf_pending_only(sentence) ==
    sentence.is_biased /\ sentence.status = "pending"

\* `if sentence.is_biased and sentence.status != "approved": return False`
blocks_pdf(sentence) == sentence.is_biased /\ sentence.status # "approved"

\* The readiness loop from sentence i on: False at the first blocking
\* sentence, True once the list is exhausted.
RECURSIVE ready_from(_, _)
ready_from(sentences, i) ==
    IF i > Len(sentences) THEN TRUE
    ELSE IF blocks_pdf(sentences[i]) THEN FALSE
    ELSE ready_from(sentences, i + 1)

\* Mutant: the loop returns after its first sentence.
is_session_ready_for_pdf_first_only(S, session_id) ==
    LET found == get_session(S, session_id) IN
    IF found = <<>> THEN FALSE
    ELSE Len(found[1].sentences) = 0 \/ ~blocks_pdf(found[1].sentences[1])

is_session_ready_for_pdf(S, session_id) ==
    LET found == get_session(S, session_id) IN
    IF found = <<>> THEN FALSE ELSE ready_from(found[1].sentences, 1)

\* Mutant: only a session under review is marked.
mark_session_completed_in_progress_only(S, session_id) ==
    IF get_session(S, session_id) = <<>> THEN S
    ELSE IF S[session_id].status # "in_progress" THEN S
    ELSE [S EXCEPT ![session_id].status = "completed"]

mark_session_completed(S, session_id) ==
    IF get_session(S, session_id) = <<>> THEN S
    ELSE [S EXCEPT ![session_id].status = "completed"]

create_session(S, sentences, original_pdf_bytes) ==
    LET session_id == session_uuid(S) IN
    [x \in DOMAIN S \cup {session_id} |->
        IF x = session_id
        THEN [session_id |-> session_id,
              sentences |-> sentences,
              original_pdf_bytes |-> original_pdf_bytes,
              status |-> "pending_review"]
        ELSE S[x]]

\* ------------------------------------------------------ external outcomes
\* DebiasSentenceResponse of generate_debiased_sentence: one of the texts, or
\* a failure (no Mistral client, or the call raised).
DebiasResponses(suggestions) ==
    {[success |-> FALSE, suggestion |-> None]}
        \cup {[success |-> TRUE, suggestion |-> s] : s \in suggestions}

\* What happens to one document sentence in start_bias_review: the classifier
\* raises; or the inner split of run_bias_detection keeps nothing (no
\* results); or it keeps the sentence, the classifier labels it and, when the
\* result is biased, the Suggestion Gateway answers with debias[1].
SentenceOutcomes(suggestions, confidence_threshold) ==
    {[error |-> TRUE, predictions |-> <<>>, debias |-> <<>>],
     [error |-> FALSE, predictions |-> <<>>, debias |-> <<>>]}
        \cup {[error |-> FALSE, predictions |-> <<p>>, debias |-> <<d>>] :
                <<p, d>> \in
                    {x \in Predictions \X DebiasResponses(suggestions) :
                        \/ is_biased(id_to_label(x[1].label), x[1].score,
                                     confidence_threshold)
                        \/ ~x[2].success}}

\* The outcomes in which the classifier labels the sentence, with every
\* label and score, and the Suggestion Gateway has no client to answer.
ScoredOutcomes ==
    {[error |-> FALSE, predictions |-> <<p>>,
      debias |-> <<[success |-> FALSE, suggestion |-> None]>>] :
        p \in ScoredPredictions}

\* BiasResult list of run_bias_detection for document sentence k.
run_bias_detection(k, outcome, confidence_threshold) ==
    [j \in 1..Len(outcome.predictions) |->
        LET category == id_to_label(outcome.predictions[j].label)
            confidence == outcome.predictions[j].score
        IN  [sentence |-> k,
             category |-> category,
             confidence |-> confidence,
             is_biased |-> is_biased(category, confidence, confidence_threshold),
             debias_response |-> outcome.debias[j]]]

\* all_bias_results after the loop over sentences k..n (sentences without
\* results are skipped).
RECURSIVE collect_bias_results(_, _, _, _)
collect_bias_results(k, n, outcomes, confidence_threshold) ==
    IF k > n THEN <<>>
    ELSE run_bias_detection(k, outcomes[k], confidence_threshold)
            \o collect_bias_results(k + 1, n, outcomes, confidence_threshold)

\* Mutant: every item starts pending, neutral ones included.
review_item_always_pending(sentence_id, bias_result) ==
    [sentence_id |-> sentence_id,
     original_sentence |-> bias_result.sentence,
     is_biased |-> bias_result.is_biased,
     category |-> bias_result.category,
     confidence |-> bias_result.confidence,
     suggestion |-> IF bias_result.is_biased /\ bias_result.debias_response.success
                    THEN bias_result.debias_response.suggestion ELSE None,
     approved_suggestion |-> None,
     status |-> "pending"]

\* The BiasReviewItem built for one bias result.
review_item(sentence_id, bias_result) ==
    [sentence_id |-> sentence_id,
     original_sentence |-> bias_result.sentence,
     is_biased |-> bias_result.is_biased,
     category |-> bias_result.category,
     confidence |-> bias_result.confidence,
     suggestion |-> IF bias_result.is_biased /\ bias_result.debias_response.success
                    THEN bias_result.debias_response.suggestion ELSE None,
     approved_suggestion |-> None,
     status |-> IF bias_result.is_biased THEN "pending" ELSE "approved"]

\* ----------------------------------------------------------------- state
NoSessions == [id \in {} |-> None]

Init ==
    /\ sessions = NoSessions
    /\ classifier_loaded \in BOOLEAN
    /\ response = Respond(0, "", <<>>)
    /\ renderer_invoked = FALSE
    /\ in_call = <<>>
    /\ serial_sessions = NoSessions
    /\ text = <<>>
    /\ cleaned_sentences = <<>>
    /\ segmented = FALSE

\* --------------------------------------------------------------- handlers
\* Mutant: the session is created before the results are looked at.
store_review_items_unchecked(S, review_items) ==
    [failed |-> review_items = <<>>,
     sessions |-> create_session(S, review_items, "pdf")]

\* The tail of start_bias_review: without a single bias result it raises
\* before the store is touched, otherwise the items become a session that
\* keeps the uploaded bytes.
store_review_items(S, review_items) ==
    IF review_items = <<>>
    THEN [failed |-> TRUE, sessions |-> S]
    ELSE [failed |-> FALSE, sessions |-> create_session(S, review_items, "pdf")]

\* POST /start-review. processed: process_pdf_from_bytes succeeded; n: the
\* sentences it returned; outcomes[k]: what happens to sentence k.
start_bias_review(processed, n, outcomes, confidence_threshold) ==
    LET all_bias_results == collect_bias_results(1, n, outcomes, confidence_threshold)
        session_id == session_uuid(sessions)
        review_items ==
            [j \in 1..Len(all_bias_results) |->
                review_item(sentence_uuid(session_id, j), all_bias_results[j])]
    IN
    /\ renderer_invoked' = FALSE
    /\ UNCHANGED classifier_loaded
    /\ IF ~processed THEN
          /\ response' = Respond(400, "PDF processing failed", <<>>)
          /\ UNCHANGED sessions
       ELSE IF n = 0 THEN
          /\ response' = Respond(400, "No sentences could be extracted from the PDF", <<>>)
          /\ UNCHANGED sessions
       ELSE IF ~classifier_loaded THEN
          /\ response' = Respond(503, "Bias detection model is not available", <<>>)
          /\ UNCHANGED sessions
       ELSE IF \E k \in 1..n : outcomes[k].error THEN
          /\ response' = Respond(500, "classifier error", <<>>)
          /\ UNCHANGED sessions
       ELSE
          LET r == store_review_items(sessions, review_items) IN
          /\ sessions' = r.sessions
          /\ response' =
                IF r.failed
                THEN Respond(500, "Bias detection failed for all sentences", <<>>)
                ELSE Respond(200, "review started", <<Len(review_items)>>)

\* POST /approve-suggestion
approve_suggestion(session_id, sentence_id, action, approved_suggestion) ==
    /\ renderer_invoked' = FALSE
    /\ UNCHANGED classifier_loaded
    /\ IF get_session(sessions, session_id) = <<>> THEN
          /\ response' = Respond(404, "Session not found", <<>>)
          /\ UNCHANGED sessions
       ELSE IF action = "approve" THEN
          LET r == update_sentence_status(sessions, session_id, sentence_id,
                                          "approved", approved_suggestion)
          IN  /\ sessions' = r.sessions
              /\ response' = IF r.ok
                             THEN Respond(200, "Suggestion approved successfully", <<sentence_id>>)
                             ELSE Respond(404, "Sentence not found in session", <<>>)
       ELSE IF action = "reject" THEN
          LET r == update_sentence_status(sessions, session_id, sentence_id,
                                          "needs_regeneration", None)
          IN  /\ sessions' = r.sessions
              /\ response' = IF r.ok
                             THEN Respond(200, "Suggestion rejected", <<sentence_id>>)
                             ELSE Respond(404, "Sentence not found in session", <<>>)
       ELSE
          /\ response' = Respond(400, "Invalid action", <<>>)
          /\ UNCHANGED sessions

\* Mutant: the gateway answer is stored without looking at its success flag.
store_debias_response_unchecked(S, session_id, sentence_id, debias_response) ==
    LET r == update_sentence_suggestion(S, session_id, sentence_id,
                                        debias_response.suggestion)
    IN  [upstream_failed |-> ~debias_response.success, ok |-> r.ok,
         sessions |-> r.sessions]

\* The tail of regenerate_suggestion: a failed gateway answer raises before
\* the store is touched, a successful one is stored.
store_debias_response(S, session_id, sentence_id, debias_response) ==
    IF ~debias_response.success
    THEN [upstream_failed |-> TRUE, ok |-> FALSE, sessions |-> S]
    ELSE LET r == update_sentence_suggestion(S, session_id, sentence_id,
                                             debias_response.suggestion)
         IN  [upstream_failed |-> FALSE, ok |-> r.ok, sessions |-> r.sessions]

\* POST /regenerate-suggestion. debias_response: the Suggestion Gateway's
\* answer, asked only once session and sentence are found.
regenerate_suggestion(session_id, sentence_id, debias_response) ==
    LET found == get_session(sessions, session_id) IN
    /\ renderer_invoked' = FALSE
    /\ UNCHANGED classifier_loaded
    /\ IF found = <<>> THEN
          /\ response' = Respond(404, "Session not found", <<>>)
          /\ UNCHANGED sessions
       ELSE IF find_sentence(found[1].sentences, sentence_id) = 0 THEN
          /\ response' = Respond(404, "Sentence not found in session", <<>>)
          /\ UNCHANGED sessions
       ELSE
          LET r == store_debias_response(sessions, session_id, sentence_id,
                                         debias_response)
          IN  /\ sessions' = r.sessions
              /\ response' =
                    IF r.upstream_failed
                    THEN Respond(500, "Failed to generate new suggestion", <<>>)
                    ELSE IF r.ok
                    THEN Respond(200, "Suggestion regenerated",
                                 <<sentence_id, debias_response.suggestion>>)
                    ELSE Respond(500, "Failed to update session", <<>>)

\* Mutant: the session is marked before the render result is looked at.
after_regenerate_pdf_unchecked(S, session_id, success) ==
    mark_session_completed(S, session_id)

\* The tail of generate_debiased_pdf: a failed render raises before the
\* session is marked, a successful one marks it completed.
after_regenerate_pdf(S, session_id, success) ==
    IF ~success THEN S ELSE mark_session_completed(S, session_id)

\* POST /generate-pdf. rendered: pdf_regenerator.regenerate_pdf reports
\* success (the renderer is an external collaborator).
generate_debiased_pdf(session_id, rendered) ==
    LET found == get_session(sessions, session_id) IN
    /\ UNCHANGED classifier_loaded
    /\ IF found = <<>> THEN
          /\ response' = Respond(404, "Session not found", <<>>)
          /\ renderer_invoked' = FALSE
          /\ UNCHANGED sessions
       ELSE IF ~is_session_ready_for_pdf(sessions, session_id) THEN
          LET stats == get_session_stats(sessions, session_id) IN
          /\ response' = Respond(400, "Not all sentences have been reviewed",
                                 <<stats.pending_count, stats.needs_regeneration_count>>)
          /\ renderer_invoked' = FALSE
          /\ UNCHANGED sessions
       ELSE IF ~Truthy(found[1].original_pdf_bytes) THEN
          /\ response' = Respond(400, "Original PDF not found in session", <<>>)
          /\ renderer_invoked' = FALSE
          /\ UNCHANGED sessions
       ELSE
          /\ renderer_invoked' = TRUE
          /\ sessions' = after_regenerate_pdf(sessions, session_id, rendered)
          /\ response' =
                IF rendered
                THEN Respond(200, "application/pdf", <<Len(found[1].sentences)>>)
                ELSE Respond(500, "PDF regeneration failed", <<>>)

\* GET /session/{session_id}
get_session_status(session_id) ==
    LET found == get_session(sessions, session_id) IN
    /\ renderer_invoked' = FALSE
    /\ UNCHANGED <<classifier_loaded, sessions>>
    /\ IF found = <<>> THEN
          response' = Respond(404, "Session not found", <<>>)
       ELSE
          LET stats == get_session_stats(sessions, session_id) IN
          response' = Respond(200, found[1].status,
                              <<stats.total_sentences, stats.pending_count,
                                stats.approved_count, stats.needs_regeneration_count>>)

\* ---------------------------------------------------------- specification
\* Uploads, while create_session still has a uuid to draw.
StartReview(max_items, suggestions) ==
    /\ DOMAIN sessions # SessionUuids
    /\ \E processed \in BOOLEAN, n \in 0..max_items :
        \E outcomes \in [1..n -> SentenceOutcomes(suggestions,
                                                  confidence_threshold_default)] :
            /\ start_bias_review(processed, n, outcomes, confidence_threshold_default)
            /\ UNCHANGED <<call_vars, segment_vars>>

\* approved_suggestion is sent with approve requests only.
Decide(max_items, approved_texts) ==
    \E session_id \in RequestSessionIds, sentence_id \in RequestSentenceIds(max_items),
       action \in Actions, approved_suggestion \in approved_texts :
        /\ action # "approve" => approved_suggestion = None
        /\ approve_suggestion(session_id, sentence_id, action, approved_suggestion)
        /\ UNCHANGED <<call_vars, segment_vars>>

Regenerate(max_items, suggestions) ==
    \E session_id \in RequestSessionIds, sentence_id \in RequestSentenceIds(max_items),
       debias_response \in DebiasResponses(suggestions) :
        /\ regenerate_suggestion(session_id, sentence_id, debias_response)
        /\ UNCHANGED <<call_vars, segment_vars>>

Finalize ==
    \E session_id \in RequestSessionIds, rendered \in BOOLEAN :
        /\ generate_debiased_pdf(session_id, rendered)
        /\ UNCHANGED <<call_vars, segment_vars>>

GetStatus ==
    \E session_id \in RequestSessionIds :
        /\ get_session_status(session_id)
        /\ UNCHANGED <<call_vars, segment_vars>>

NextOf(max_items, suggestions, approved_texts) ==
    \/ StartReview(max_items, suggestions)
    \/ Decide(max_items, approved_texts)
    \/ Regenerate(max_items, suggestions)
    \/ Finalize
    \/ GetStatus

\* The review workflow: documents of up to MaxItems sentences, one
\* suggestion text, approve requests that carry no text of their own.
Next == NextOf(MaxItems, {"s1"}, {None})

Spec == Init /\ [][Next]_vars

\* The same handlers where the texts vary: shorter documents, two
\* suggestion texts, approve requests with and without a text.
NextTexts == NextOf(MaxTextItems, Suggestions, ApprovedTexts)

SpecTexts == Init /\ [][NextTexts]_vars

\* Uploads with a confidence_threshold of their own, of documents whose
\* sentences get every label and score.
StartScored ==
    /\ DOMAIN sessions # SessionUuids
    /\ \E confidence_threshold \in ScoreRange, n \in 0..MaxScoredItems :
        \E outcomes \in [1..n -> ScoredOutcomes] :
            /\ start_bias_review(TRUE, n, outcomes, confidence_threshold)
            /\ UNCHANGED <<call_vars, segment_vars>>

\* The upload, then the review of what it created.
NextThreshold ==
    \/ StartScored
    \/ Decide(MaxScoredItems, {None})
    \/ GetStatus

SpecThreshold == Init /\ [][NextThreshold]_vars

\* ------------------------------------------------- the gateway call, visible
\* regenerate_suggestion reads the session and the sentence, calls the
\* Suggestion Gateway, and only then writes. The call is synchronous, so on
\* the event loop nothing else runs during it: that schedule is Spec, where
\* the handler is one step. SpecAwait is the wider schedule in which other
\* requests are served while a regenerate is inside the call, as they are
\* once the call is awaited or the handler runs in a thread pool; it
\* contains every behaviour of the event loop's schedule.

\* What regenerate_suggestion holds across the gateway call: the ids of the
\* request and the DebiasSentenceRequest built from the sentence it found.
held_request(S, session_id, sentence_id) ==
    LET sentence == S[session_id].sentences[
                        find_sentence(S[session_id].sentences, sentence_id)]
    IN  [session_id |-> session_id,
         sentence_id |-> sentence_id,
         debias_request |-> [sentence |-> sentence.original_sentence,
                             category |-> sentence.category]]

\* Mutant: the stored sentence is replaced by an item rebuilt from what the
\* handler holds, so what a request wrote to it during the call is lost.
write_back_rebuilt_item(S, request, debias_response) ==
    IF ~debias_response.success
    THEN [upstream_failed |-> TRUE, ok |-> FALSE, sessions |-> S]
    ELSE [upstream_failed |-> FALSE, ok |-> TRUE,
          sessions |-> [S EXCEPT ![request.session_id].sentences[
                            find_sentence(S[request.session_id].sentences,
                                          request.sentence_id)] =
                        [@ EXCEPT !.suggestion = debias_response.suggestion,
                                  !.approved_suggestion = None,
                                  !.status = "pending"]]]

\* After the call: update_sentence_suggestion is given the ids and looks the
\* session and the sentence up again in the store as it is now.
write_back(S, request, debias_response) ==
    store_debias_response(S, request.session_id, request.sentence_id,
                          debias_response)

\* The store after a whole approve-suggestion request, run on its own.
decide_serially(S, session_id, sentence_id, action, approved_suggestion) ==
    IF get_session(S, session_id) = <<>> THEN S
    ELSE IF action = "approve"
    THEN update_sentence_status(S, session_id, sentence_id, "approved",
                                approved_suggestion).sessions
    ELSE IF action = "reject"
    THEN update_sentence_status(S, session_id, sentence_id,
                                "needs_regeneration", None).sessions
    ELSE S

\* The store after a whole regenerate-suggestion request, run on its own.
regenerate_serially(S, session_id, sentence_id, debias_response) ==
    IF get_session(S, session_id) = <<>> THEN S
    ELSE IF find_sentence(S[session_id].sentences, sentence_id) = 0 THEN S
    ELSE store_debias_response(S, session_id, sentence_id, debias_response).sessions

\* An upload, served at once, while create_session has a uuid to draw.
AwaitStart ==
    /\ DOMAIN sessions # SessionUuids
    /\ \E processed \in BOOLEAN, n \in 0..MaxAwaitItems :
        \E outcomes \in [1..n -> SentenceOutcomes({"s1"}, confidence_threshold_default)] :
            /\ start_bias_review(processed, n, outcomes, confidence_threshold_default)
            /\ serial_sessions' = sessions'
            /\ UNCHANGED <<in_call, segment_vars>>

\* An approve or reject, served at once, also while regenerates wait.
AwaitDecide ==
    \E session_id \in RequestSessionIds,
       sentence_id \in RequestSentenceIds(MaxAwaitItems),
       action \in Actions, approved_suggestion \in {None, "t1"} :
        /\ action # "approve" => approved_suggestion = None
        /\ approve_suggestion(session_id, sentence_id, action, approved_suggestion)
        /\ serial_sessions' = decide_serially(serial_sessions, session_id,
                                    sentence_id, action, approved_suggestion)
        /\ UNCHANGED <<in_call, segment_vars>>

\* A regenerate up to its gateway call: answered 404 at once, or held.
regenerate_until_call(session_id, sentence_id) ==
    LET found == get_session(sessions, session_id) IN
    /\ UNCHANGED <<sessions, classifier_loaded, serial_sessions, segment_vars>>
    /\ renderer_invoked' = FALSE
    /\ IF found = <<>> THEN
          /\ response' = Respond(404, "Session not found", <<>>)
          /\ UNCHANGED <<in_call, segment_vars>>
       ELSE IF find_sentence(found[1].sentences, sentence_id) = 0 THEN
          /\ response' = Respond(404, "Sentence not found in session", <<>>)
          /\ UNCHANGED <<in_call, segment_vars>>
       ELSE
          /\ Len(in_call) < MaxInFlight
          /\ in_call' = Append(in_call,
                            held_request(sessions, session_id, sentence_id))
          /\ UNCHANGED response

RegenerateBegin ==
    \E session_id \in RequestSessionIds,
       sentence_id \in RequestSentenceIds(MaxAwaitItems) :
        regenerate_until_call(session_id, sentence_id)

\* The gateway answers one of the held regenerates, which writes and returns.
RegenerateEnd ==
    \E k \in 1..Len(in_call), debias_response \in DebiasResponses(Suggestions) :
        LET request == in_call[k]
            r == write_back(sessions, request, debias_response)
        IN  /\ sessions' = r.sessions
            /\ response' =
                    IF r.upstream_failed
                    THEN Respond(500, "Failed to generate new suggestion", <<>>)
                    ELSE IF r.ok
                    THEN Respond(200, "Suggestion regenerated",
                                 <<request.sentence_id, debias_response.suggestion>>)
                    ELSE Respond(500, "Failed to update session", <<>>)
            /\ in_call' = SubSeq(in_call, 1, k - 1)
                            \o SubSeq(in_call, k + 1, Len(in_call))
            /\ serial_sessions' = regenerate_serially(serial_sessions,
                                    request.session_id, request.sentence_id,
                                    debias_response)
            /\ renderer_invoked' = FALSE
            /\ UNCHANGED <<classifier_loaded, segment_vars>>

NextAwait == AwaitStart \/ AwaitDecide \/ RegenerateBegin \/ RegenerateEnd

SpecAwait == Init /\ [][NextAwait]_vars

\* ------------------------------------------------------ the event loop
\* SpecLoop is the schedule of the code with the gateway call visible and
\* two uploads: every route is an `async def`, generate_debiased_sentence is
\* a plain function that calls Mistral without await, so from the moment a
\* regenerate enters the call until it returns the event loop's thread is
\* inside it and starts no other handler, for whichever session.

\* session_id values of a request where two sessions are reviewed.
LoopSessionIds == {Uuid4Draws[i] : i \in 1..Len(Uuid4Draws)} \cup {"unknown"}

\* sentence_id values of a request: the items of that upload, or unknown.
LoopSentenceIds(session_id) ==
    {sentence_uuid(session_id, i) : i \in 1..MaxAwaitItems} \cup {<<"unknown", 0>>}

\* The event loop is not inside a gateway call.
LoopFree == in_call = <<>>

LoopStart ==
    /\ LoopFree
    /\ Cardinality(DOMAIN sessions) < Len(Uuid4Draws)
    /\ \E processed \in BOOLEAN, n \in 0..MaxAwaitItems :
        \E outcomes \in [1..n -> SentenceOutcomes({"s1"}, confidence_threshold_default)] :
            /\ start_bias_review(processed, n, outcomes, confidence_threshold_default)
            /\ UNCHANGED <<call_vars, segment_vars>>

LoopDecide(session_id) ==
    /\ LoopFree
    /\ \E sentence_id \in LoopSentenceIds(session_id), action \in Actions :
        /\ approve_suggestion(session_id, sentence_id, action, None)
        /\ UNCHANGED <<call_vars, segment_vars>>

LoopRegenerateBegin(session_id) ==
    /\ LoopFree
    /\ \E sentence_id \in LoopSentenceIds(session_id) :
        regenerate_until_call(session_id, sentence_id)

LoopGetStatus(session_id) ==
    /\ LoopFree
    /\ get_session_status(session_id)
    /\ UNCHANGED <<call_vars, segment_vars>>

\* A request for this session is started and answered, or started and held.
LoopServe(session_id) ==
    \/ LoopDecide(session_id)
    \/ LoopRegenerateBegin(session_id)
    \/ LoopGetStatus(session_id)

NextLoop ==
    \/ LoopStart
    \/ \E session_id \in LoopSessionIds : LoopServe(session_id)
    \/ RegenerateEnd

SpecLoop == Init /\ [][NextLoop]_vars

\* ------------------------------------------------------------ the segmenter
\* PDFProcessor.split_into_sentences (src/utility/pdf_processor.py). A text
\* is the sequence of its characters, and a character stands for its class:
\* the patterns and the strip calls of the code tell apart whitespace, the
\* danda, the other sentence punctuation, the characters of the Devanagari
\* ranges, and everything else.

\* The danda (purna biram), U+0964.
Danda == "|"
\* A Devanagari letter, such as U+0915.
NepaliLetter == "k"
\* A character outside the Devanagari ranges that is neither whitespace nor
\* punctuation, such as a Latin letter.
OtherLetter == "a"
\* The class [U+0905-U+0939 U+0901-U+097F] of the lookaheads: the second
\* range holds the danda.
NepaliCharacters == {NepaliLetter, Danda}
\* \s, and what str.strip() removes.
Whitespace == {" ", "\n"}
\* The class of the wider lookbehinds: danda, full stop, '!' and '?'.
Punctuation == {Danda, ".", "!", "?"}
\* A cleaned candidate is kept when it is longer than this.
MinLength == 3

RECURSIVE lstrip(_, _)
lstrip(s, chars) ==
    IF s # <<>> /\ Head(s) \in chars THEN lstrip(Tail(s), chars) ELSE s

RECURSIVE rstrip(_, _)
rstrip(s, chars) ==
    IF s # <<>> /\ s[Len(s)] \in chars
    THEN rstrip(SubSeq(s, 1, Len(s) - 1), chars)
    ELSE s

\* str.strip(chars)
strip(s, chars) == rstrip(lstrip(s, chars), chars)

\* text.replace('\n', ' ')
replace_newlines(raw) ==
    [i \in 1..Len(raw) |-> IF raw[i] = "\n" THEN " " ELSE raw[i]]

RECURSIVE collapse_whitespace(_)
\* re.sub(r'\s+', ' ', text)
collapse_whitespace(raw) ==
    IF raw = <<>> THEN <<>>
    ELSE IF Head(raw) \in Whitespace
    THEN <<" ">> \o collapse_whitespace(lstrip(raw, Whitespace))
    ELSE <<Head(raw)>> \o collapse_whitespace(Tail(raw))

clean_text(raw) ==
    strip(collapse_whitespace(replace_newlines(raw)), Whitespace)

\* The three patterns of re.split: the lookbehind class, whether \s* or \s+
\* follows, and whether the Devanagari lookahead closes the pattern.
danda_boundary ==
    [behind |-> {Danda}, spaces_at_least |-> 0, lookahead |-> TRUE]

punctuation_boundary ==
    [behind |-> Punctuation, spaces_at_least |-> 0, lookahead |-> TRUE]

punctuation_then_space ==
    [behind |-> Punctuation, spaces_at_least |-> 1, lookahead |-> FALSE]

RECURSIVE whitespace_run(_, _)
\* The whitespace characters that follow character i: what a greedy \s*
\* takes there. The lookahead never makes it give one back, since no
\* whitespace is in the lookahead's class.
whitespace_run(s, i) ==
    IF i < Len(s) /\ s[i + 1] \in Whitespace
    THEN 1 + whitespace_run(s, i + 1)
    ELSE 0

\* Mutant: a boundary needs whitespace behind the terminator.
matches_at_spaced(pattern, s, i) ==
    LET n == whitespace_run(s, i) IN
    /\ i >= 1
    /\ s[i] \in pattern.behind
    /\ n >= 1
    /\ pattern.lookahead => (i + n < Len(s) /\ s[i + n + 1] \in NepaliCharacters)

\* The pattern matches right after character i.
matches_at(pattern, s, i) ==
    LET n == whitespace_run(s, i) IN
    /\ i >= 1
    /\ s[i] \in pattern.behind
    /\ n >= pattern.spaces_at_least
    /\ pattern.lookahead => (i + n < Len(s) /\ s[i + n + 1] \in NepaliCharacters)

RECURSIVE re_split_from_text_start(_, _, _, _)
\* Mutant: every piece reaches back to the first character of the text.
re_split_from_text_start(pattern, s, start, i) ==
    IF i > Len(s) THEN <<SubSeq(s, 1, Len(s))>>
    ELSE IF matches_at(pattern, s, i)
    THEN LET n == whitespace_run(s, i) IN
         <<SubSeq(s, 1, i)>>
            \o re_split_from_text_start(pattern, s, i + n + 1,
                                        IF n = 0 THEN i + 1 ELSE i + n)
    ELSE re_split_from_text_start(pattern, s, start, i + 1)

RECURSIVE re_split_from(_, _, _, _)
\* re.split from character `start` on, the search standing after character
\* i: matches are taken left to right, an empty match splits too, and the
\* search goes on behind the match (one character on after an empty one).
re_split_from(pattern, s, start, i) ==
    IF i > Len(s) THEN <<SubSeq(s, start, Len(s))>>
    ELSE IF matches_at(pattern, s, i)
    THEN LET n == whitespace_run(s, i) IN
         <<SubSeq(s, start, i)>>
            \o re_split_from(pattern, s, i + n + 1, IF n = 0 THEN i + 1 ELSE i + n)
    ELSE re_split_from(pattern, s, start, i + 1)

re_split(pattern, s) == re_split_from(pattern, s, 1, 0)

\* The layers: the next pattern is tried while the last gave one piece.
split_layers(s) ==
    LET primary == re_split(danda_boundary, s)
        secondary == IF Len(primary) <= 1
                     THEN re_split(punctuation_boundary, s)
                     ELSE primary
    IN  IF Len(secondary) <= 1
        THEN re_split(punctuation_then_space, s)
        ELSE secondary

\* Mutant: only whitespace is stripped from a piece.
cleaned_of_whitespace(s) == strip(s, Whitespace)

\* s.strip(' ।.!?').strip()
cleaned(s) == strip(strip(s, {" "} \cup Punctuation), Whitespace)

RECURSIVE clean_sentences_of_any_length(_)
\* Mutant: a piece is kept whatever the length of its content.
clean_sentences_of_any_length(pieces) ==
    IF pieces = <<>> THEN <<>>
    ELSE LET content == cleaned(Head(pieces)) IN
         (IF content # <<>> THEN <<content \o <<Danda>>>> ELSE <<>>)
            \o clean_sentences_of_any_length(Tail(pieces))

RECURSIVE clean_sentences(_)
\* The loop over the pieces: a piece with enough content is kept, with the
\* danda put back behind it.
clean_sentences(pieces) ==
    IF pieces = <<>> THEN <<>>
    ELSE LET content == cleaned(Head(pieces)) IN
         (IF content # <<>> /\ Len(content) > MinLength
          THEN <<content \o <<Danda>>>>
          ELSE <<>>) \o clean_sentences(Tail(pieces))

split_into_sentences(raw) ==
    LET s == clean_text(raw) IN
    IF s = <<>> THEN <<>> ELSE clean_sentences(split_layers(s))

RECURSIVE join(_, _)
\* separator.join(sentences)
join(separator, sentences) ==
    IF sentences = <<>> THEN <<>>
    ELSE IF Len(sentences) = 1 THEN Head(sentences)
    ELSE Head(sentences) \o separator \o join(separator, Tail(sentences))

\* ------------------------------------------------- texts for the segmenter
\* Sequences of at most n elements of S.
SeqsUpTo(S, n) == UNION {[1..m -> S] : m \in 0..n}

\* A word that is long enough to be kept, one that is not, and one of
\* another script.
Words ==
    {<<NepaliLetter, NepaliLetter, NepaliLetter, NepaliLetter>>,
     <<NepaliLetter, NepaliLetter, NepaliLetter>>,
     <<OtherLetter, OtherLetter, OtherLetter, OtherLetter>>}

\* A word, its terminator, and the space behind it or none.
DocumentSentences ==
    {word \o <<terminator>> \o gap :
        word \in Words, terminator \in {Danda, "."}, gap \in {<<>>, <<" ">>}}

\* Texts of up to MaxSentences such sentences.
Documents == {join(<<>>, d) : d \in SeqsUpTo(DocumentSentences, MaxSentences)}

\* Texts of up to MaxTokens words, spaces, newlines and terminators in any
\* order.
TokenTexts ==
    {join(<<>>, d) :
        d \in SeqsUpTo(Words \cup {<<c>> : c \in {" ", "\n", Danda, "."}}, MaxTokens)}

\* Texts of whitespace and punctuation only, the empty text among them.
BlankTexts == SeqsUpTo(Whitespace \cup Punctuation, MaxBlank)

\* No two spaces of s are neighbours.
single_spaced(s) == \A i \in 1..(Len(s) - 1) : ~(s[i] = " " /\ s[i + 1] = " ")

\* The shortest contents of more than MinLength Devanagari letters and
\* single spaces that begin with a letter.
DenseContents ==
    {c \in [1..(MinLength + 1) -> {NepaliLetter, " "}] :
        c[1] = NepaliLetter /\ single_spaced(c)}

\* Texts of 2..MaxDense such contents, each followed by a danda, with up
\* to MaxGap spaces between a danda and the next content.
DenseTexts ==
    {join(<<>>, d) \o last \o <<Danda>> :
        d \in UNION {[1..m -> {c \o <<Danda>> \o [i \in 1..g |-> " "] :
                                 c \in DenseContents, g \in 0..MaxGap}]
                     : m \in 1..(MaxDense - 1)},
        last \in DenseContents}

Texts == Documents \cup TokenTexts \cup BlankTexts \cup DenseTexts

\* ---------------------------------------------- the segmenter at work
\* A PDFProcessor with a text to split; the review workflow has not
\* started and takes no step.
SegmentInit ==
    /\ text \in Texts
    /\ cleaned_sentences = <<>>
    /\ segmented = FALSE
    /\ sessions = NoSessions
    /\ classifier_loaded = TRUE
    /\ response = Respond(0, "", <<>>)
    /\ renderer_invoked = FALSE
    /\ in_call = <<>>
    /\ serial_sessions = NoSessions

\* split_into_sentences(text) returns.
Segment ==
    /\ ~segmented
    /\ cleaned_sentences' = split_into_sentences(text)
    /\ segmented' = TRUE
    /\ UNCHANGED <<text, review_vars>>

\* The sentences returned are joined with single spaces, as
\* refine_sentences_with_llm joins them, and split_into_sentences is
\* called on the joined text.
Resegment ==
    /\ segmented
    /\ text' = join(<<" ">>, cleaned_sentences)
    /\ cleaned_sentences' = split_into_sentences(text')
    /\ UNCHANGED <<segmented, review_vars>>

NextSegment == Segment \/ Resegment

SpecSegment == SegmentInit /\ [][NextSegment]_vars

\* ----------------------------------------------------------------- claims
\* Every biased sentence of the session is approved.
AllBiasedApproved(session) ==
    \A i \in 1..Len(session.sentences) :
        session.sentences[i].is_biased => session.sentences[i].status = "approved"

\* The handler's answers, by name.
IncompleteReview ==
    response.status_code = 400 /\ response.detail = "Not all sentences have been reviewed"
RenderFailure ==
    response.status_code = 500 /\ response.detail = "PDF regeneration failed"
UpstreamFailure ==
    response.status_code = 500 /\ response.detail = "Failed to generate new suggestion"
PdfReturned ==
    response.status_code = 200 /\ response.detail = "application/pdf"

C2_NotReadyFinalizeRefused ==
    [][\A session_id \in SessionUuids, rendered \in BOOLEAN :
        ( /\ session_id \in DOMAIN sessions
          /\ ~AllBiasedApproved(sessions[session_id])
          /\ generate_debiased_pdf(session_id, rendered) )
        => ( /\ response'.status_code = 400
             /\ response'.detail = "Not all sentences have been reviewed"
             /\ ~renderer_invoked'
             /\ sessions' = sessions )]_vars

\* C2 witness: IncompleteReview was answered for a session under review in
\* which one biased sentence is approved and another is not.
C2_Witness ==
    /\ IncompleteReview
    /\ ~renderer_invoked
    /\ \E session_id \in DOMAIN sessions :
        LET sentences == sessions[session_id].sentences IN
        /\ sessions[session_id].status = "in_progress"
        /\ \E i \in 1..Len(sentences) :
            sentences[i].is_biased /\ sentences[i].status = "approved"
        /\ \E i \in 1..Len(sentences) :
            sentences[i].is_biased /\ sentences[i].status = "needs_regeneration"

\* C3: a session's status turns completed only in a generate-pdf step on
\* that session that found every biased sentence approved, called the
\* renderer and returned the PDF; no other step completes a session.
C3_CompletedOnlyByFinalize ==
    [][\A session_id \in DOMAIN sessions' :
        ( /\ sessions'[session_id].status = "completed"
          /\ session_id \in DOMAIN sessions => sessions[session_id].status # "completed" )
        => ( /\ session_id \in DOMAIN sessions
             /\ AllBiasedApproved(sessions[session_id])
             /\ generate_debiased_pdf(session_id, TRUE)
             /\ renderer_invoked'
             /\ response'.status_code = 200
             /\ response'.detail = "application/pdf" )]_vars

\* C3 witness: a session with two biased sentences, one of them with a
\* regenerated suggestion, is completed right after its PDF was returned.
C3_Witness ==
    /\ PdfReturned
    /\ renderer_invoked
    /\ \E session_id \in DOMAIN sessions :
        LET sentences == sessions[session_id].sentences IN
        /\ sessions[session_id].status = "completed"
        /\ Len(sentences) = 2
        /\ \A i \in 1..2 : sentences[i].is_biased /\ sentences[i].status = "approved"
        /\ \E i \in 1..2 : sentences[i].suggestion = "s1"

\* The i-th sentence of a stored session.
Sentence(S, session_id, i) == S[session_id].sentences[i]

\* The step keeps the session and its sentence list in place.
SameShape(session_id) ==
    /\ session_id \in DOMAIN sessions
    /\ session_id \in DOMAIN sessions'
    /\ Len(sessions'[session_id].sentences) = Len(sessions[session_id].sentences)

C5_ApproveFreezesSuggestion ==
    [][\A session_id \in DOMAIN sessions :
        \A i \in 1..Len(sessions[session_id].sentences) :
            ( /\ approve_suggestion(session_id,
                    Sentence(sessions, session_id, i).sentence_id, "approve", None)
              /\ response'.status_code = 200 )
            => /\ Sentence(sessions', session_id, i).status = "approved"
               /\ Sentence(sessions', session_id, i).approved_suggestion
                    = Sentence(sessions, session_id, i).suggestion]_vars

\* C6: a regenerate that stores the gateway's text leaves the sentence with
\* that text as its suggestion and with status pending, whatever its status
\* was before.
C6_RegenerateResetsToPending ==
    [][\A session_id \in DOMAIN sessions :
        \A i \in 1..Len(sessions[session_id].sentences) :
            \A debias_response \in DebiasResponses(Suggestions) :
                ( /\ debias_response.success
                  /\ regenerate_suggestion(session_id,
                        Sentence(sessions, session_id, i).sentence_id,
                        debias_response) )
                => /\ response'.status_code = 200
                   /\ Sentence(sessions', session_id, i).suggestion
                        = debias_response.suggestion
                   /\ Sentence(sessions', session_id, i).status = "pending"]_vars

\* C6 witness: a regenerate succeeded on a sentence approved earlier: it
\* is pending again with the second text as its suggestion.
C6_Witness ==
    /\ response.status_code = 200
    /\ response.detail = "Suggestion regenerated"
    /\ \E session_id \in DOMAIN sessions :
        \E i \in 1..Len(sessions[session_id].sentences) :
            /\ Sentence(sessions, session_id, i).status = "pending"
            /\ Sentence(sessions, session_id, i).suggestion = "s2"
            /\ Sentence(sessions, session_id, i).approved_suggestion = "t1"

\* C7 as claimed: a successful approve, reject or regenerate on a sentence
\* of a pending_review session leaves the session in_progress.
C7_FirstMutationPromotes ==
    [][\A session_id \in DOMAIN sessions :
        \A i \in 1..Len(sessions[session_id].sentences) :
            LET sentence_id == Sentence(sessions, session_id, i).sentence_id IN
            ( /\ sessions[session_id].status = "pending_review"
              /\ response'.status_code = 200
              /\ \/ \E action \in {"approve", "reject"},
                       approved_suggestion \in ApprovedTexts :
                        approve_suggestion(session_id, sentence_id, action,
                                           approved_suggestion)
                 \/ \E debias_response \in DebiasResponses(Suggestions) :
                        regenerate_suggestion(session_id, sentence_id,
                                              debias_response) )
            => /\ session_id \in DOMAIN sessions'
               /\ sessions'[session_id].status = "in_progress"]_vars

\* C8: a completed session stays in the store and stays completed in every
\* step, whichever request is handled.
C8_CompletedStaysCompleted ==
    [][\A session_id \in DOMAIN sessions :
        sessions[session_id].status = "completed"
            => /\ session_id \in DOMAIN sessions'
               /\ sessions'[session_id].status = "completed"]_vars

\* C8 witness: a sentence of a completed session was rejected and the
\* session is still completed.
C8_Witness ==
    /\ response.status_code = 200
    /\ response.detail = "Suggestion rejected"
    /\ \E session_id \in DOMAIN sessions :
        /\ sessions[session_id].status = "completed"
        /\ \E i \in 1..Len(sessions[session_id].sentences) :
            Sentence(sessions, session_id, i).status = "needs_regeneration"

\* C9: a generate-pdf on a session whose biased sentences are all approved
\* calls the renderer; when the renderer fails the answer is RenderFailure
\* and the store (session status and every sentence) is as before, so the
\* session is as ready as it was; when the renderer succeeds, at the first
\* call or at a retry, the PDF is returned and the session is completed.
C9_RenderFailureRetryable ==
    [][\A session_id \in DOMAIN sessions : \A rendered \in BOOLEAN :
        ( /\ AllBiasedApproved(sessions[session_id])
          /\ generate_debiased_pdf(session_id, rendered) )
        => /\ renderer_invoked'
           /\ ~rendered =>
                /\ response'.status_code = 500
                /\ response'.detail = "PDF regeneration failed"
                /\ sessions' = sessions
           /\ rendered =>
                /\ response'.status_code = 200
                /\ response'.detail = "application/pdf"
                /\ session_id \in DOMAIN sessions'
                /\ sessions'[session_id].status = "completed"]_vars

\* C9 witness: the renderer failed for a session under review whose biased
\* sentence is approved; the session is not completed.
C9_Witness ==
    /\ RenderFailure
    /\ renderer_invoked
    /\ \E session_id \in DOMAIN sessions :
        /\ sessions[session_id].status = "in_progress"
        /\ AllBiasedApproved(sessions[session_id])
        /\ \E i \in 1..Len(sessions[session_id].sentences) :
            Sentence(sessions, session_id, i).is_biased

\* C10: a regenerate whose gateway call fails, for a sentence the session
\* holds, answers UpstreamFailure and leaves the store as it was: the
\* sentence's suggestion, status and approved_suggestion, and the session's
\* status.
C10_GatewayFailureKeepsState ==
    [][\A session_id \in DOMAIN sessions :
        \A i \in 1..Len(sessions[session_id].sentences) :
            \A debias_response \in DebiasResponses(Suggestions) :
                ( /\ ~debias_response.success
                  /\ regenerate_suggestion(session_id,
                        Sentence(sessions, session_id, i).sentence_id,
                        debias_response) )
                => /\ response'.status_code = 500
                   /\ response'.detail = "Failed to generate new suggestion"
                   /\ sessions' = sessions]_vars

\* C10 witness: UpstreamFailure was answered while a rejected sentence
\* still has its suggestion and the text it was once approved with.
C10_Witness ==
    /\ UpstreamFailure
    /\ \E session_id \in DOMAIN sessions :
        \E i \in 1..Len(sessions[session_id].sentences) :
            /\ Sentence(sessions, session_id, i).status = "needs_regeneration"
            /\ Sentence(sessions, session_id, i).suggestion = "s1"
            /\ Sentence(sessions, session_id, i).approved_suggestion = "t1"

\* The session is stored and holds a sentence with this id.
KnownSentence(session_id, sentence_id) ==
    /\ session_id \in DOMAIN sessions
    /\ find_sentence(sessions[session_id].sentences, sentence_id) # 0

\* C11: an approve-suggestion request answers 404 when its session id is
\* unknown (whatever the action) or when its action is approve or reject and
\* the session holds no sentence with its sentence id; it answers 400 when
\* the session is known and the action is neither approve nor reject; and
\* whenever it answers 404 or 400 the store is as before: no sentence field
\* and no session status changed, a pending_review session is not promoted.
C11_DecideErrorsKeepState ==
    [][\A session_id \in RequestSessionIds, action \in Actions :
        \A sentence_id \in RequestSentenceIds(MaxScoredItems) :
            approve_suggestion(session_id, sentence_id, action, None)
            => /\ session_id \notin DOMAIN sessions
                    => response'.status_code = 404
               /\ ( /\ session_id \in DOMAIN sessions
                    /\ action \in {"approve", "reject"}
                    /\ ~KnownSentence(session_id, sentence_id) )
                    => response'.status_code = 404
               /\ ( /\ session_id \in DOMAIN sessions
                    /\ action \notin {"approve", "reject"} )
                    => response'.status_code = 400
               /\ KnownSentence(session_id, sentence_id) /\ action \in {"approve", "reject"}
                    => response'.status_code = 200
               /\ response'.status_code \in {400, 404} => sessions' = sessions]_vars

\* C11 witness: a request for a sentence the session does not hold was
\* answered 404 and the session, never acted on, is still pending_review
\* with its biased sentence pending.
C11_Witness ==
    /\ response.status_code = 404
    /\ response.detail = "Sentence not found in session"
    /\ \E session_id \in DOMAIN sessions :
        /\ sessions[session_id].status = "pending_review"
        /\ \E i \in 1..Len(sessions[session_id].sentences) :
            /\ Sentence(sessions, session_id, i).is_biased
            /\ Sentence(sessions, session_id, i).status = "pending"

\* The sentences that keep the session from its PDF: biased, not approved.
Outstanding(session) ==
    {i \in 1..Len(session.sentences) : blocks_pdf(session.sentences[i])}

\* C12 as claimed: when generate-pdf answers IncompleteReview, the pending
\* count and the needs-regeneration count it reports add up to the number
\* of biased sentences of the session that are not approved.
C12_CountsAreOutstanding ==
    [][\A session_id \in DOMAIN sessions, rendered \in BOOLEAN :
        ( /\ generate_debiased_pdf(session_id, rendered)
          /\ response'.status_code = 400
          /\ response'.detail = "Not all sentences have been reviewed" )
        => response'.body[1] + response'.body[2]
                = Cardinality(Outstanding(sessions[session_id]))]_vars

\* C13: the session a start-review step adds to the store has status
\* pending_review; each of its sentences that is not biased is approved and
\* has no suggestion, each biased one is pending, and none has an
\* approved_suggestion.
C13_CreatedSessionShape ==
    [][\A session_id \in DOMAIN sessions' \ DOMAIN sessions :
        LET session == sessions'[session_id] IN
        /\ session.status = "pending_review"
        /\ \A i \in 1..Len(session.sentences) :
            LET sentence == session.sentences[i] IN
            /\ ~sentence.is_biased
                => sentence.status = "approved" /\ sentence.suggestion = None
            /\ sentence.is_biased => sentence.status = "pending"
            /\ sentence.approved_suggestion = None]_vars

\* C13 witness: start-review just created a session with a neutral
\* sentence and a biased sentence that got a suggestion from the gateway.
C13_Witness ==
    /\ response.status_code = 200
    /\ response.detail = "review started"
    /\ \E session_id \in DOMAIN sessions :
        LET sentences == sessions[session_id].sentences IN
        /\ sessions[session_id].status = "pending_review"
        /\ \E i \in 1..Len(sentences) :
            ~sentences[i].is_biased /\ sentences[i].status = "approved"
        /\ \E i \in 1..Len(sentences) :
            /\ sentences[i].is_biased
            /\ sentences[i].status = "pending"
            /\ sentences[i].suggestion = "s1"

\* The error answers of start-review.
StartReviewErrors ==
    {"PDF processing failed", "No sentences could be extracted from the PDF",
     "Bias detection model is not available", "classifier error",
     "Bias detection failed for all sentences"}

\* C14: a start-review that answers an error (processing failed, no
\* sentence extracted, classifier not loaded, classifier raised, no bias
\* result for any sentence) leaves the store exactly as it was: no session
\* is created.
C14_StartErrorCreatesNoSession ==
    [][DOMAIN sessions # SessionUuids =>
       \A processed \in BOOLEAN, n \in 0..MaxItems :
        \A outcomes \in [1..n -> SentenceOutcomes({"s1"}, confidence_threshold_default)] :
            ( /\ start_bias_review(processed, n, outcomes, confidence_threshold_default)
              /\ response'.status_code # 200 )
            => /\ response'.detail \in StartReviewErrors
               /\ sessions' = sessions]_vars

\* C14 witness: with the classifier loaded, start-review answered that
\* bias detection failed for all sentences, and the store holds no session.
C14_Witness ==
    /\ classifier_loaded
    /\ response.status_code = 500
    /\ response.detail = "Bias detection failed for all sentences"
    /\ DOMAIN sessions = {}

\* The document sentences, in order, that the classifier labelled.
Classified(n, outcomes) ==
    SelectSeq([k \in 1..n |-> k], LAMBDA k : outcomes[k].predictions # <<>>)

\* C15 as claimed: with the classifier loaded, a start-review in which at
\* least one sentence is classified creates a session whose items are the
\* classified sentences in document order, whatever happened to the other
\* sentences (the classifier raised, or gave no result).
C15_PartialFailureStillCreates ==
    [][DOMAIN sessions # SessionUuids /\ classifier_loaded =>
       \A n \in 1..MaxItems :
        \A outcomes \in [1..n -> SentenceOutcomes({"s1"}, confidence_threshold_default)] :
            ( /\ Classified(n, outcomes) # <<>>
              /\ start_bias_review(TRUE, n, outcomes, confidence_threshold_default) )
            => /\ response'.status_code = 200
               /\ \E session_id \in DOMAIN sessions' \ DOMAIN sessions :
                    LET sentences == sessions'[session_id].sentences IN
                    /\ Len(sentences) = Len(Classified(n, outcomes))
                    /\ \A j \in 1..Len(sentences) :
                        sentences[j].original_sentence
                            = Classified(n, outcomes)[j]]_vars

\* C16: however approve, reject and regenerate requests on a session are
\* interleaved at the gateway call, the store is in every state, and so
\* once all of them are answered, the store that running the answered
\* requests one after another, in the order of their answers, produces.
C16_NoLostUpdates == sessions = serial_sessions

\* C16 witness: an approve with a text of its own was answered and stored
\* for a sentence while two regenerates of that sentence are inside the
\* gateway call.
C16_Witness ==
    /\ Len(in_call) = 2
    /\ response.status_code = 200
    /\ response.detail = "Suggestion approved successfully"
    /\ \A k \in 1..2 :
        /\ response.body = <<in_call[k].sentence_id>>
        /\ \E i \in 1..Len(sessions[in_call[k].session_id].sentences) :
            LET sentence == Sentence(sessions, in_call[k].session_id, i) IN
            /\ sentence.sentence_id = in_call[k].sentence_id
            /\ sentence.approved_suggestion = "t1"
            /\ sentence.status = "approved"

C18_SessionsIndependent ==
    /\ [][\A a \in DOMAIN sessions, b \in DOMAIN sessions :
            ( /\ a # b
              /\ \/ LoopServe(a)
                 \/ RegenerateEnd /\ in_call[1].session_id = a )
            => sessions'[b] = sessions[b]]_vars
    /\ [](\A k \in 1..Len(in_call), b \in DOMAIN sessions :
            b # in_call[k].session_id => ENABLED LoopServe(b))

\* The fields of a sentence set at creation.
CreationFields(sentence) ==
    <<sentence.sentence_id, sentence.original_sentence, sentence.is_biased,
      sentence.category, sentence.confidence>>

\* C19: in every step, whichever request is handled, each stored session
\* keeps its number of sentences and their order, and each sentence keeps
\* its sentence_id, original_sentence, is_biased, category and confidence;
\* a sentence differs from before only in suggestion, approved_suggestion
\* and status, and only in the step of an answered approve, reject or
\* regenerate that names it, so every other sentence is left as it was.
C19_FrameOfItems ==
    [][\A session_id \in DOMAIN sessions :
        /\ SameShape(session_id)
        /\ \A i \in 1..Len(sessions[session_id].sentences) :
            /\ CreationFields(Sentence(sessions', session_id, i))
                    = CreationFields(Sentence(sessions, session_id, i))
            /\ Sentence(sessions', session_id, i) # Sentence(sessions, session_id, i)
                => /\ response'.status_code = 200
                   /\ response'.detail \in {"Suggestion approved successfully",
                                            "Suggestion rejected",
                                            "Suggestion regenerated"}
                   /\ response'.body[1]
                        = Sentence(sessions, session_id, i).sentence_id]_vars

\* C19 witness: a regenerate was answered for one sentence of a
\* two-sentence session, now pending with the new text, while the other
\* sentence, biased and approved earlier, is as it was.
C19_Witness ==
    /\ response.status_code = 200
    /\ response.detail = "Suggestion regenerated"
    /\ \E session_id \in DOMAIN sessions :
        /\ Len(sessions[session_id].sentences) = 2
        /\ \E i \in 1..2, j \in 1..2 :
            /\ i # j
            /\ response.body[1] = Sentence(sessions, session_id, i).sentence_id
            /\ Sentence(sessions, session_id, i).status = "pending"
            /\ Sentence(sessions, session_id, i).suggestion = "s1"
            /\ Sentence(sessions, session_id, j).is_biased
            /\ Sentence(sessions, session_id, j).status = "approved"

\* C20: in the session a start-review with threshold t creates, a sentence
\* has is_biased exactly when its category is not neutral and its
\* confidence is at least t; a confidence equal to t counts.
C20_BiasedIffNotNeutralAtThreshold ==
    [][response'.status_code = 200 /\ response'.detail = "review started" =>
       \A confidence_threshold \in ScoreRange, n \in 1..MaxScoredItems :
        \A outcomes \in [1..n -> ScoredOutcomes] :
            ( /\ DOMAIN sessions # SessionUuids
              /\ start_bias_review(TRUE, n, outcomes, confidence_threshold) )
            => \A session_id \in DOMAIN sessions' \ DOMAIN sessions :
                \A j \in 1..Len(sessions'[session_id].sentences) :
                    LET sentence == Sentence(sessions', session_id, j) IN
                    /\ sentence.is_biased
                        <=> ( /\ sentence.category # "neutral"
                              /\ sentence.confidence >= confidence_threshold )
                    /\ sentence.confidence = confidence_threshold
                        => (sentence.is_biased <=> sentence.category # "neutral")]_vars

\* C20 witness: an upload created a sentence labelled gender that is
\* biased with the lowest confidence of the range: the threshold of that
\* upload, which is in the range, is equal to the confidence.
C20_Witness ==
    /\ response.status_code = 200
    /\ response.detail = "review started"
    /\ \E session_id \in DOMAIN sessions :
        \E i \in 1..Len(sessions[session_id].sentences) :
            /\ Sentence(sessions, session_id, i).category = "gender"
            /\ Sentence(sessions, session_id, i).is_biased
            /\ Sentence(sessions, session_id, i).status = "pending"
            /\ \A c \in ScoreRange :
                    Sentence(sessions, session_id, i).confidence <= c

\* ------------------------------------------------- claims on the segmenter
\* The sentences without the danda put back behind each.
contents_of(sentences) ==
    [i \in 1..Len(sentences) |-> SubSeq(sentences[i], 1, Len(sentences[i]) - 1)]

\* C21: joining the sentences split_into_sentences returned with single
\* spaces and splitting the joined text again returns the same sequence of
\* sentences, for every text.
C21_ResegmentingIsIdempotent ==
    [][(segmented /\ segmented') => cleaned_sentences' = cleaned_sentences]_vars

RECURSIVE split_at_danda(_)
\* The parts of s between its dandas, in order; the last is what follows
\* the last danda.
split_at_danda(s) ==
    IF \A i \in 1..Len(s) : s[i] # Danda THEN <<s>>
    ELSE LET p == CHOOSE i \in 1..Len(s) :
                    s[i] = Danda /\ \A j \in 1..(i - 1) : s[j] # Danda
         IN  <<SubSeq(s, 1, p - 1)>> \o split_at_danda(SubSeq(s, p + 1, Len(s)))

\* What stands before each danda of s, from its first letter on.
dense_contents(s) ==
    LET parts == split_at_danda(s) IN
    [i \in 1..(Len(parts) - 1) |->
        IF i = 1 THEN parts[i] ELSE lstrip(parts[i], {" "})]

\* More than MinLength characters, Devanagari letters and single spaces,
\* the first a letter.
IsDenseContent(c) ==
    /\ Len(c) > MinLength
    /\ c[1] = NepaliLetter
    /\ \A i \in 1..Len(c) : c[i] \in {NepaliLetter, " "}
    /\ single_spaced(c)

\* s is two or more such contents, each followed by a danda, with nothing
\* but spaces between a danda and the next content.
IsDenseText(s) ==
    LET parts == split_at_danda(s) IN
    /\ Len(parts) >= 3
    /\ parts[Len(parts)] = <<>>
    /\ \A i \in 1..Len(dense_contents(s)) : IsDenseContent(dense_contents(s)[i])

\* C22: for a text of k >= 2 sentences, each more than 3 characters of
\* Devanagari letters and single spaces that begin and end with a letter,
\* each followed by a danda, with zero or more spaces between a danda and
\* the next sentence, split_into_sentences returns exactly these k
\* sentences in document order, each ending in the danda.
C22_DenseSentencesAllReturned ==
    ( /\ segmented
      /\ IsDenseText(text)
      /\ \A i \in 1..Len(dense_contents(text)) :
            dense_contents(text)[i][Len(dense_contents(text)[i])] = NepaliLetter )
    => /\ Len(cleaned_sentences) = Len(dense_contents(text))
       /\ \A i \in 1..Len(cleaned_sentences) :
            cleaned_sentences[i] = dense_contents(text)[i] \o <<Danda>>

\* C22 as stated: the same for every such text, also where a sentence has
\* a space between its last letter and its danda: k sentences are
\* returned, each ending in the danda.
C22_DenseSentencesAllReturnedAsStated ==
    (segmented /\ IsDenseText(text))
    => /\ Len(cleaned_sentences) = Len(dense_contents(text))
       /\ \A i \in 1..Len(cleaned_sentences) :
            cleaned_sentences[i][Len(cleaned_sentences[i])] = Danda

\* C22 witness: a text of two sentences with no space behind the first
\* danda, one of them of two words, was split into both.
C22_Witness ==
    /\ segmented
    /\ IsDenseText(text)
    /\ \A i \in 1..(Len(text) - 1) : text[i] = Danda => text[i + 1] # " "
    /\ \E i \in 1..Len(text) : text[i] = " "
    /\ Len(cleaned_sentences) = 2
    /\ cleaned_sentences = [i \in 1..2 |-> dense_contents(text)[i] \o <<Danda>>]

\* C23: for a text that is empty or has whitespace and sentence
\* punctuation only, split_into_sentences returns the empty list.
C23_BlankTextGivesNoSentence ==
    ( /\ segmented
      /\ \A i \in 1..Len(text) : text[i] \in Whitespace \cup Punctuation )
    => cleaned_sentences = <<>>

\* C23 witness: a text of MaxBlank characters, a danda, another terminator
\* and whitespace among them, was split into nothing.
C23_Witness ==
    /\ segmented
    /\ Len(text) = MaxBlank
    /\ \A i \in 1..Len(text) : text[i] \in Whitespace \cup Punctuation
    /\ \E i, j, k \in 1..Len(text) :
        text[i] = Danda /\ text[j] \in Whitespace /\ text[k] \in Punctuation \ {Danda}
    /\ cleaned_sentences = <<>>

\* C24: every sentence split_into_sentences returns, whichever pattern cut
\* it, is a content of more than 3 characters whose first and last
\* character are neither punctuation nor whitespace, followed by one danda;
\* no content of 3 or fewer characters is returned.
C24_SentencesAreStrippedContentAndDanda ==
    segmented =>
        \A i \in 1..Len(cleaned_sentences) :
            LET sentence == cleaned_sentences[i]
                content == contents_of(cleaned_sentences)[i]
            IN  /\ sentence # <<>>
                /\ sentence[Len(sentence)] = Danda
                /\ Len(content) > MinLength
                /\ content[1] \notin Whitespace \cup Punctuation
                /\ content[Len(content)] \notin Whitespace \cup Punctuation

\* C24 witness: a text was split into pieces, of which one was returned
\* and another, with a content of three characters, was not.
C24_Witness ==
    /\ segmented
    /\ Len(cleaned_sentences) = 1
    /\ LET pieces == split_layers(clean_text(text)) IN
        /\ Len(pieces) >= 2
        /\ \E i \in 1..Len(pieces) : Len(cleaned(pieces[i])) = MinLength

\* s without its whitespace.
without_whitespace(s) == SelectSeq(s, LAMBDA c : c \notin Whitespace)

RECURSIVE is_subsequence(_, _)
\* a is b with some characters left out.
is_subsequence(a, b) ==
    IF a = <<>> THEN TRUE
    ELSE IF b = <<>> THEN FALSE
    ELSE IF Head(a) = Head(b) THEN is_subsequence(Tail(a), Tail(b))
    ELSE is_subsequence(a, Tail(b))

\* C25: the contents of the sentences returned for a text, each without
\* the danda put behind it, one after another in the order returned and
\* with whitespace left out, are a subsequence of the text's characters
\* that are not whitespace.
C25_ContentsAreSubsequenceOfText ==
    segmented =>
        is_subsequence(without_whitespace(join(<<>>, contents_of(cleaned_sentences))),
                       without_whitespace(text))

\* C25 witness: a text was split into two sentences or more, and these
\* hold fewer characters than the text: a short piece or punctuation was
\* left out.
C25_Witness ==
    /\ segmented
    /\ Len(cleaned_sentences) >= 2
    /\ Len(without_whitespace(join(<<>>, contents_of(cleaned_sentences))))
            + Len(cleaned_sentences) < Len(without_whitespace(text))
    /\ \E i \in 1..Len(text) : text[i] = OtherLetter

\* --------------------------------------- claims on the review life cycle
\* C26: a step that turns a session's status to completed starts from
\* in_progress; no session goes from pending_review to completed, whatever
\* its sentences are.
C26_CompletedOnlyFromInProgress ==
    [][\A session_id \in DOMAIN sessions :
        ( /\ sessions'[session_id].status = "completed"
          /\ sessions[session_id].status # "completed" )
        => sessions[session_id].status = "in_progress"]_vars

\* C27: a sentence in needs_regeneration leaves that status only for
\* pending, and only in the step of an answered regenerate that names it
\* and stores the new suggestion; an approve never takes it to approved.
C27_NeedsRegenerationLeftOnlyByRegenerate ==
    [][\A session_id \in DOMAIN sessions :
        \A i \in 1..Len(sessions[session_id].sentences) :
            ( /\ Sentence(sessions, session_id, i).status = "needs_regeneration"
              /\ Sentence(sessions', session_id, i).status # "needs_regeneration" )
            => /\ Sentence(sessions', session_id, i).status = "pending"
               /\ response'.status_code = 200
               /\ response'.detail = "Suggestion regenerated"
               /\ response'.body[1] = Sentence(sessions, session_id, i).sentence_id
               /\ Sentence(sessions', session_id, i).suggestion = response'.body[2]]_vars

\* C28: in every reachable state, every biased sentence of a completed
\* session is approved.
C28_CompletedHasAllBiasedApproved ==
    \A session_id \in DOMAIN sessions :
        sessions[session_id].status = "completed"
            => AllBiasedApproved(sessions[session_id])

\* C29: when generate-pdf finds the session ready and calls the renderer
\* with its sentences, every biased sentence handed over has an
\* approved_suggestion that is not None.
C29_RenderedSentencesHaveFinalText ==
    [][renderer_invoked' =>
        \A session_id \in DOMAIN sessions, rendered \in BOOLEAN :
            generate_debiased_pdf(session_id, rendered)
            => \A i \in 1..Len(sessions[session_id].sentences) :
                Sentence(sessions, session_id, i).is_biased
                    => Sentence(sessions, session_id, i).approved_suggestion # None]_vars

\* ------------------------------------------------- finishing a review
\* An approve of a biased sentence that is not approved.
ApproveOutstanding ==
    \E session_id \in DOMAIN sessions :
        \E i \in 1..Len(sessions[session_id].sentences) :
            /\ Sentence(sessions, session_id, i).is_biased
            /\ Sentence(sessions, session_id, i).status # "approved"
            /\ approve_suggestion(session_id,
                                  Sentence(sessions, session_id, i).sentence_id,
                                  "approve", None)
            /\ UNCHANGED <<call_vars, segment_vars>>

\* A generate-pdf for which the renderer, if called, succeeds.
FinalizeRendered ==
    \E session_id \in DOMAIN sessions :
        /\ generate_debiased_pdf(session_id, TRUE)
        /\ UNCHANGED <<call_vars, segment_vars>>

\* The review workflow with a reviewer who goes on approving what is
\* outstanding and a client that goes on asking for the PDF.
SpecFinish ==
    /\ Init
    /\ [][Next]_vars
    /\ WF_vars(ApproveOutstanding)
    /\ WF_vars(FinalizeRendered)

\* A reject or a regenerate that changes the store.
ReopenStep ==
    /\ sessions' # sessions
    /\ \E session_id \in DOMAIN sessions :
        \E i \in 1..Len(sessions[session_id].sentences) :
            LET sentence_id == Sentence(sessions, session_id, i).sentence_id IN
            \/ approve_suggestion(session_id, sentence_id, "reject", None)
            \/ \E debias_response \in DebiasResponses({"s1"}) :
                regenerate_suggestion(session_id, sentence_id, debias_response)

\* C30: a review can always be finished: if from some point on no reject
\* and no regenerate changes the store, while approves of the outstanding
\* biased sentences and generate-pdf requests with a succeeding renderer
\* go on being made, then every stored session, whatever state it is in,
\* reaches status completed.
C30_ReviewCanBeFinished ==
    (<>[][~ReopenStep]_vars)
        => \A session_id \in SessionUuids :
            (session_id \in DOMAIN sessions)
                ~> ( /\ session_id \in DOMAIN sessions
                     /\ sessions[session_id].status = "completed" )

\* C30 witness: a session with a biased sentence that was rejected and a
\* biased sentence that was regenerated is completed, both approved.
C30_Witness ==
    \E session_id \in DOMAIN sessions :
        LET sentences == sessions[session_id].sentences IN
        /\ sessions[session_id].status = "completed"
        /\ Len(sentences) = 2
        /\ AllBiasedApproved(sessions[session_id])
        /\ sentences[1].is_biased /\ sentences[1].suggestion = None
        /\ sentences[2].is_biased /\ sentences[2].suggestion = "s1"
        /\ PdfReturned

====
